---- MODULE Spec2Model ----
(***************************************************************************)
(* Orbit camera and input dispatch of the CAD viewport (src/main.py).     *)
(*                                                                         *)
(* Numbers are fixed point:                                                *)
(*   angles     in units of 1/AngleScale degree (half degrees: the orbit   *)
(*              sensitivity 0.5 times a whole-pixel delta),                *)
(*   lengths    in units of 1/DistScale (hundredths),                      *)
(*   sines, unit vectors and other ratios in units of 1/TrigScale.         *)
(* Every product is rounded to the nearest unit, as a float operation      *)
(* rounds to the nearest representable value.                              *)
(***************************************************************************)
EXTENDS Integers, Sequences, FiniteSets, TLC

VARIABLES
    pc,                    \* "constructed" | "first_frame" | "running" | "crashed" | "classify" | "classified"
    camera,                \* self.camera: the Camera object
    left_mouse_pressed,    \* CADPlatform.left_mouse_pressed
    middle_mouse_pressed,  \* CADPlatform.middle_mouse_pressed
    right_mouse_pressed,   \* CADPlatform.right_mouse_pressed
    last_x,                \* CADPlatform.last_x
    last_y,                \* CADPlatform.last_y
    width,                 \* CADPlatform.width   (0 before initialize sets it)
    height,                \* CADPlatform.height  (0 before initialize sets it)
    monitor,               \* glfw.get_window_monitor(window): "primary" | "none"
    aspect,                \* aspect of the loaded projection matrix, 1/AspectScale units; 0 = identity
    error,                 \* exception that left a callback: "none" | "ZeroDivisionError"
    view_name,             \* output: the "View:" text the step's render drew ("" when the step drew no frame)
    held,                  \* history: buttons now held, in the order they were pressed
    pointer,               \* history: the most recent pointer sample (a move event or the cursor read at a press)
    last_op,               \* history: the operation the last step invoked
    last_args              \* history: the arguments that operation was called with

vars == <<pc, camera, left_mouse_pressed, middle_mouse_pressed, right_mouse_pressed,
          last_x, last_y, width, height, monitor, aspect, error, view_name, held, pointer,
          last_op, last_args>>

input_vars == <<left_mouse_pressed, middle_mouse_pressed, right_mouse_pressed, last_x, last_y, held,
                pointer>>
viewport_vars == <<width, height, monitor, aspect, error>>

----------------------------------------------------------------------------
(* Fixed-point scales *)

AngleScale == 2
DistScale == 100
TrigScale == 10000
AspectScale == 1000

(* Bounds of the explored inputs *)

\* orbit is explored while |orbit_angle_h| is at most MaxAngleH (angle units)
MaxAngleH == 180
\* orbit, pan and zoom are explored while every |target[i]| is at most MaxTarget (length units)
MaxTarget == 0

\* get_view_name is applied to every horizontal angle of at most MaxViewAngleH (angle units)
MaxViewAngleH == 900

\* pointer positions delivered by the window system (pixels)
PointerXs == {0, 180}
PointerYs == {0, 300}
\* scroll y_offset values
ScrollAmounts == {-40, 0, 10, 12}
\* framebuffer sizes reported on a resize; <<0, 0>> is a minimised window
FramebufferSizes == {<<800, 600>>, <<0, 0>>}
\* angles get_view_name is applied to: every half degree of the horizontal range, and
\* vertical angles inside the clamp, on and around the 60 degree thresholds
ViewAnglesH == -MaxViewAngleH .. MaxViewAngleH
ViewAnglesV == {-178, -150, -121, -120, -119, -90, 0, 90, 119, 120, 121, 150, 178}
\* size of the primary monitor's video mode
VideoMode == <<1920, 1080>>

----------------------------------------------------------------------------
(* Arithmetic *)

Abs(a) == IF a < 0 THEN -a ELSE a

\* a / b rounded to the nearest integer (b > 0)
RoundDiv(a, b) == (a + b \div 2) \div b

RECURSIVE IsqrtIter(_, _, _)
IsqrtIter(n, lo, hi) ==
    IF lo >= hi THEN lo
    ELSE LET mid == (lo + hi + 1) \div 2
         IN  IF mid * mid <= n THEN IsqrtIter(n, mid, hi) ELSE IsqrtIter(n, lo, mid - 1)

\* math.sqrt, rounded to the nearest integer
Sqrt(n) ==
    LET s == IsqrtIter(n, 0, 30000)
    IN  IF n - s * s > s THEN s + 1 ELSE s

\* sin of 0, 0.5, 1, ..., 90 degrees, times TrigScale
SinTable ==
    << 0, 87, 175, 262, 349, 436, 523, 610, 698, 785, 872, 958,
       1045, 1132, 1219, 1305, 1392, 1478, 1564, 1650, 1736, 1822, 1908, 1994,
       2079, 2164, 2250, 2334, 2419, 2504, 2588, 2672, 2756, 2840, 2924, 3007,
       3090, 3173, 3256, 3338, 3420, 3502, 3584, 3665, 3746, 3827, 3907, 3987,
       4067, 4147, 4226, 4305, 4384, 4462, 4540, 4617, 4695, 4772, 4848, 4924,
       5000, 5075, 5150, 5225, 5299, 5373, 5446, 5519, 5592, 5664, 5736, 5807,
       5878, 5948, 6018, 6088, 6157, 6225, 6293, 6361, 6428, 6494, 6561, 6626,
       6691, 6756, 6820, 6884, 6947, 7009, 7071, 7133, 7193, 7254, 7314, 7373,
       7431, 7490, 7547, 7604, 7660, 7716, 7771, 7826, 7880, 7934, 7986, 8039,
       8090, 8141, 8192, 8241, 8290, 8339, 8387, 8434, 8480, 8526, 8572, 8616,
       8660, 8704, 8746, 8788, 8829, 8870, 8910, 8949, 8988, 9026, 9063, 9100,
       9135, 9171, 9205, 9239, 9272, 9304, 9336, 9367, 9397, 9426, 9455, 9483,
       9511, 9537, 9563, 9588, 9613, 9636, 9659, 9681, 9703, 9724, 9744, 9763,
       9781, 9799, 9816, 9833, 9848, 9863, 9877, 9890, 9903, 9914, 9925, 9936,
       9945, 9954, 9962, 9969, 9976, 9981, 9986, 9990, 9994, 9997, 9998, 10000,
       10000 >>

\* math.sin(math.radians(a)) for an angle a in angle units, times TrigScale
Sin(a) ==
    LET m == a % (360 * AngleScale)
        q == 90 * AngleScale
    IN  IF m <= q THEN SinTable[m + 1]
        ELSE IF m <= 2 * q THEN SinTable[2 * q - m + 1]
        ELSE IF m <= 3 * q THEN -SinTable[m - 2 * q + 1]
        ELSE -SinTable[4 * q - m + 1]

\* math.cos(math.radians(a))
Cos(a) == Sin(a + 90 * AngleScale)

\* np.linalg.norm of a 3-vector
Norm(v) == Sqrt(v[1] * v[1] + v[2] * v[2] + v[3] * v[3])

\* np.cross of two vectors in 1/TrigScale units
Cross(a, b) ==
    << RoundDiv(a[2] * b[3] - a[3] * b[2], TrigScale),
       RoundDiv(a[3] * b[1] - a[1] * b[3], TrigScale),
       RoundDiv(a[1] * b[2] - a[2] * b[1], TrigScale) >>

----------------------------------------------------------------------------
(* class Camera *)

\* Camera.__init__: the fields the navigation code reads or writes.
\* nan is TRUE once a pan has divided by a zero norm (target and position are NaN).
Camera ==
    [ position      |-> <<0, 10 * DistScale, 20 * DistScale>>,
      target        |-> <<0, 0, 0>>,
      orbit_radius  |-> 20 * DistScale,
      orbit_angle_h |-> 0,
      orbit_angle_v |-> 45 * AngleScale,
      nan           |-> FALSE ]

\* the offset (x, y, z) computed by update_camera_vectors
Spherical(radius, angle_h, angle_v) ==
    LET y == RoundDiv(radius * Sin(angle_v), TrigScale)
        radius_xz == RoundDiv(radius * Cos(angle_v), TrigScale)
        x == RoundDiv(radius_xz * Cos(angle_h), TrigScale)
        z == RoundDiv(radius_xz * Sin(angle_h), TrigScale)
    IN  <<x, y, z>>

update_camera_vectors(cam) ==
    LET s == Spherical(cam.orbit_radius, cam.orbit_angle_h, cam.orbit_angle_v)
    IN  [cam EXCEPT !.position = [i \in 1..3 |-> cam.target[i] + s[i]]]

\* sensitivity 0.5: one pixel is half a degree, i.e. AngleScale / 2 angle units
OrbitDelta(d) == (d * AngleScale) \div 2

\* process_orbit without the lower clamp of lines 45-46
process_orbit_no_lower_clamp(cam, dx, dy) ==
    LET h == cam.orbit_angle_h + OrbitDelta(dx)
        v0 == cam.orbit_angle_v + OrbitDelta(dy)
        v1 == IF v0 > 89 * AngleScale THEN 89 * AngleScale ELSE v0
    IN  update_camera_vectors([cam EXCEPT !.orbit_angle_h = h, !.orbit_angle_v = v1])

process_orbit(cam, dx, dy) ==
    LET h == cam.orbit_angle_h + OrbitDelta(dx)
        v0 == cam.orbit_angle_v + OrbitDelta(dy)
        v1 == IF v0 > 89 * AngleScale THEN 89 * AngleScale ELSE v0
        v2 == IF v1 < -89 * AngleScale THEN -89 * AngleScale ELSE v1
    IN  update_camera_vectors([cam EXCEPT !.orbit_angle_h = h, !.orbit_angle_v = v2])

\* lines 52-64: forward, right and up before each is divided by its norm
PanForward(cam) == [i \in 1..3 |-> cam.target[i] - cam.position[i]]
PanRight(forward) == Cross(forward, <<0, TrigScale, 0>>)
PanUp(right, forward) == Cross(right, forward)

\* the norms process_pan divides by at lines 57, 61 and 64, in computation order;
\* a zero norm makes the later ones NaN, written 0
PanNorms(cam) ==
    LET forward0 == PanForward(cam)
        norm_forward == Norm(forward0)
    IN  IF norm_forward = 0 THEN <<0, 0, 0>> ELSE
    LET forward == [i \in 1..3 |-> RoundDiv(forward0[i] * TrigScale, norm_forward)]
        right0 == PanRight(forward)
        norm_right == Norm(right0)
    IN  IF norm_right = 0 THEN <<norm_forward, 0, 0>> ELSE
    LET right == [i \in 1..3 |-> RoundDiv(right0[i] * TrigScale, norm_right)]
    IN  <<norm_forward, norm_right, Norm(PanUp(right, forward))>>

\* process_pan that moves the target and leaves the eye where it was
process_pan_target_only(cam, dx, dy) ==
    LET forward0 == PanForward(cam)
        norm_forward == Norm(forward0)
    IN  IF cam.nan \/ norm_forward = 0 THEN [cam EXCEPT !.nan = TRUE] ELSE
    LET forward == [i \in 1..3 |-> RoundDiv(forward0[i] * TrigScale, norm_forward)]
        right0 == PanRight(forward)
        norm_right == Norm(right0)
    IN  IF norm_right = 0 THEN [cam EXCEPT !.nan = TRUE] ELSE
    LET right == [i \in 1..3 |-> RoundDiv(right0[i] * TrigScale, norm_right)]
        up0 == PanUp(right, forward)
        norm_up == Norm(up0)
    IN  IF norm_up = 0 THEN [cam EXCEPT !.nan = TRUE] ELSE
    LET up == [i \in 1..3 |-> RoundDiv(up0[i] * TrigScale, norm_up)]
        pan_scale == RoundDiv(cam.orbit_radius * 5, 100)
        right_amount == [i \in 1..3 |-> RoundDiv(right[i] * (dx * pan_scale), TrigScale)]
        up_amount == [i \in 1..3 |-> RoundDiv(up[i] * (dy * pan_scale), TrigScale)]
    IN  [cam EXCEPT !.target = [i \in 1..3 |-> cam.target[i] - (right_amount[i] - up_amount[i])]]

\* process_pan with the sign of up_amount slipped in the position update
process_pan_sign_slip(cam, dx, dy) ==
    LET forward0 == PanForward(cam)
        norm_forward == Norm(forward0)
    IN  IF cam.nan \/ norm_forward = 0 THEN [cam EXCEPT !.nan = TRUE] ELSE
    LET forward == [i \in 1..3 |-> RoundDiv(forward0[i] * TrigScale, norm_forward)]
        right0 == PanRight(forward)
        norm_right == Norm(right0)
    IN  IF norm_right = 0 THEN [cam EXCEPT !.nan = TRUE] ELSE
    LET right == [i \in 1..3 |-> RoundDiv(right0[i] * TrigScale, norm_right)]
        up0 == PanUp(right, forward)
        norm_up == Norm(up0)
    IN  IF norm_up = 0 THEN [cam EXCEPT !.nan = TRUE] ELSE
    LET up == [i \in 1..3 |-> RoundDiv(up0[i] * TrigScale, norm_up)]
        pan_scale == RoundDiv(cam.orbit_radius * 5, 100)
        right_amount == [i \in 1..3 |-> RoundDiv(right[i] * (dx * pan_scale), TrigScale)]
        up_amount == [i \in 1..3 |-> RoundDiv(up[i] * (dy * pan_scale), TrigScale)]
    IN  [cam EXCEPT !.target = [i \in 1..3 |-> cam.target[i] - (right_amount[i] - up_amount[i])],
                    !.position = [i \in 1..3 |-> cam.position[i] - (right_amount[i] + up_amount[i])]]

process_pan(cam, dx, dy) ==
    LET forward0 == PanForward(cam)
        norm_forward == Norm(forward0)
    IN  IF cam.nan \/ norm_forward = 0 THEN [cam EXCEPT !.nan = TRUE] ELSE
    LET forward == [i \in 1..3 |-> RoundDiv(forward0[i] * TrigScale, norm_forward)]
        right0 == PanRight(forward)
        norm_right == Norm(right0)
    IN  IF norm_right = 0 THEN [cam EXCEPT !.nan = TRUE] ELSE
    LET right == [i \in 1..3 |-> RoundDiv(right0[i] * TrigScale, norm_right)]
        up0 == PanUp(right, forward)
        norm_up == Norm(up0)
    IN  IF norm_up = 0 THEN [cam EXCEPT !.nan = TRUE] ELSE
    LET up == [i \in 1..3 |-> RoundDiv(up0[i] * TrigScale, norm_up)]
        \* orbit_radius * pan_sensitivity (0.05), in length units
        pan_scale == RoundDiv(cam.orbit_radius * 5, 100)
        right_amount == [i \in 1..3 |-> RoundDiv(right[i] * (dx * pan_scale), TrigScale)]
        up_amount == [i \in 1..3 |-> RoundDiv(up[i] * (dy * pan_scale), TrigScale)]
    IN  [cam EXCEPT !.target = [i \in 1..3 |-> cam.target[i] - (right_amount[i] - up_amount[i])],
                    !.position = [i \in 1..3 |-> cam.position[i] - (right_amount[i] - up_amount[i])]]

\* process_zoom with the sign of the step slipped: scrolling up moves away
process_zoom_inverted(cam, amount) ==
    LET r0 == cam.orbit_radius + RoundDiv(amount * cam.orbit_radius, 10)
        r1 == IF r0 < 1 * DistScale THEN 1 * DistScale ELSE r0
        r2 == IF r1 > 100 * DistScale THEN 100 * DistScale ELSE r1
    IN  update_camera_vectors([cam EXCEPT !.orbit_radius = r2])

\* process_zoom with the lower clamp at 0.0 instead of 1.0
process_zoom_floor_zero(cam, amount) ==
    LET r0 == cam.orbit_radius - RoundDiv(amount * cam.orbit_radius, 10)
        r1 == IF r0 < 0 THEN 0 ELSE r0
        r2 == IF r1 > 100 * DistScale THEN 100 * DistScale ELSE r1
    IN  update_camera_vectors([cam EXCEPT !.orbit_radius = r2])

\* process_zoom without the lower clamp of lines 83-84
process_zoom_no_lower_clamp(cam, amount) ==
    LET r0 == cam.orbit_radius - RoundDiv(amount * cam.orbit_radius, 10)
        r2 == IF r0 > 100 * DistScale THEN 100 * DistScale ELSE r0
    IN  update_camera_vectors([cam EXCEPT !.orbit_radius = r2])

process_zoom(cam, amount) ==
    LET r0 == cam.orbit_radius - RoundDiv(amount * cam.orbit_radius, 10)
        r1 == IF r0 < 1 * DistScale THEN 1 * DistScale ELSE r0
        r2 == IF r1 > 100 * DistScale THEN 100 * DistScale ELSE r1
    IN  update_camera_vectors([cam EXCEPT !.orbit_radius = r2])

\* Direction with the names moved one sector on: Front around 0, Right around 90
Direction_front_at_zero(angle_h) ==
    LET m == angle_h % (360 * AngleScale)
        h_angle == IF m < 0 THEN m + 360 * AngleScale ELSE m
    IN  IF 45 * AngleScale <= h_angle /\ h_angle < 135 * AngleScale THEN "Right"
        ELSE IF 135 * AngleScale <= h_angle /\ h_angle < 225 * AngleScale THEN "Back"
        ELSE IF 225 * AngleScale <= h_angle /\ h_angle < 315 * AngleScale THEN "Left"
        ELSE "Front"

\* Direction without the normalisation of line 101
Direction_not_normalized(angle_h) ==
    LET h_angle == angle_h
    IN  IF 45 * AngleScale <= h_angle /\ h_angle < 135 * AngleScale THEN "Front"
        ELSE IF 135 * AngleScale <= h_angle /\ h_angle < 225 * AngleScale THEN "Right"
        ELSE IF 225 * AngleScale <= h_angle /\ h_angle < 315 * AngleScale THEN "Back"
        ELSE "Left"

\* lines 101-113: the cardinal direction named for a horizontal angle
Direction(angle_h) ==
    LET m == angle_h % (360 * AngleScale)
        h_angle == IF m < 0 THEN m + 360 * AngleScale ELSE m
    IN  IF 45 * AngleScale <= h_angle /\ h_angle < 135 * AngleScale THEN "Front"
        ELSE IF 135 * AngleScale <= h_angle /\ h_angle < 225 * AngleScale THEN "Right"
        ELSE IF 225 * AngleScale <= h_angle /\ h_angle < 315 * AngleScale THEN "Back"
        ELSE "Left"

\* Qualifier with strict comparisons
Qualifier_strict(angle_v) ==
    IF angle_v > 60 * AngleScale THEN "Top"
    ELSE IF angle_v < -60 * AngleScale THEN "Bottom"
    ELSE ""

\* lines 116-121: the qualifier chosen from the vertical angle
Qualifier(angle_v) ==
    IF angle_v >= 60 * AngleScale THEN "Top"
    ELSE IF angle_v <= -60 * AngleScale THEN "Bottom"
    ELSE ""

get_view_name(cam) ==
    LET direction == Direction(cam.orbit_angle_h)
        qualifier == Qualifier(cam.orbit_angle_v)
    IN  IF qualifier # "" THEN qualifier \o " " \o direction ELSE direction

----------------------------------------------------------------------------
(* class CADPlatform *)

\* update_projection: the aspect it loads, or the exception the division raises
update_projection(w, h, old_aspect) ==
    IF h = 0
    THEN [aspect |-> old_aspect, error |-> "ZeroDivisionError"]
    ELSE [aspect |-> (w * AspectScale) \div h, error |-> "none"]

\* CADPlatform.__init__
Init ==
    /\ pc = "constructed"
    /\ camera = Camera
    /\ left_mouse_pressed = FALSE
    /\ middle_mouse_pressed = FALSE
    /\ right_mouse_pressed = FALSE
    /\ last_x = 0
    /\ last_y = 0
    /\ width = 0
    /\ height = 0
    /\ monitor = "primary"
    /\ aspect = 0
    /\ error = "none"
    /\ view_name = ""
    /\ held = <<>>
    /\ pointer = <<0, 0>>
    /\ last_op = "__init__"
    /\ last_args = <<>>

\* what a step does after update_projection returned or raised
Projected(w, h) ==
    LET p == update_projection(w, h, aspect)
    IN  /\ width' = w
        /\ height' = h
        /\ aspect' = p.aspect
        /\ error' = p.error
        /\ pc' = IF p.error = "none" THEN pc ELSE "crashed"

\* initialize: full-screen window on the primary monitor, projection, camera
initialize ==
    /\ pc = "constructed"
    /\ LET p == update_projection(VideoMode[1], VideoMode[2], aspect)
       IN  /\ width' = VideoMode[1]
           /\ height' = VideoMode[2]
           /\ aspect' = p.aspect
           /\ error' = p.error
           /\ pc' = IF p.error = "none" THEN "first_frame" ELSE "crashed"
           /\ camera' = IF p.error = "none" THEN update_camera_vectors(camera) ELSE camera
    /\ last_op' = "initialize"
    /\ last_args' = <<>>
    /\ view_name' = ""
    /\ UNCHANGED <<input_vars, monitor>>

\* render: one pass of the main loop; draw_angle_display prints get_view_name
render ==
    /\ pc \in {"first_frame", "running"}
    /\ pc' = "running"
    /\ view_name' = get_view_name(camera)
    /\ last_op' = "render"
    /\ last_args' = <<>>
    /\ UNCHANGED <<camera, input_vars, viewport_vars>>

framebuffer_size_callback(w, h) ==
    /\ pc = "running"
    /\ Projected(w, h)
    /\ last_op' = "framebuffer_size_callback"
    /\ last_args' = <<>>
    /\ view_name' = ""
    /\ UNCHANGED <<camera, input_vars, monitor>>

\* the branches of lines 210-218 with the middle button tested first
DragOperation_middle_first(left, middle, right) ==
    IF middle THEN "process_pan"
    ELSE IF left THEN "process_orbit"
    ELSE IF right THEN "process_pan_vertical"
    ELSE "none"

\* the operation mouse_callback selects: lines 205-218
DragOperation(left, middle, right) ==
    IF left THEN "process_orbit"
    ELSE IF middle THEN "process_pan"
    ELSE IF right THEN "process_pan_vertical"
    ELSE "none"

TargetWithin(cam, bound) == \A i \in 1..3 : Abs(cam.target[i]) <= bound

\* mouse_callback with lines 220-221 inside the if: the position is recorded only while dragging
mouse_callback_record_when_dragging(x_pos, y_pos) ==
    /\ pc = "running"
    /\ LET dx == x_pos - last_x
           dy == last_y - y_pos
           op == DragOperation(left_mouse_pressed, middle_mouse_pressed, right_mouse_pressed)
       IN  /\ op = "process_orbit" => Abs(camera.orbit_angle_h) <= MaxAngleH
           /\ op # "none" => TargetWithin(camera, MaxTarget)
           /\ camera' = CASE op = "process_orbit" -> process_orbit(camera, dx, dy)
                          [] op = "process_pan" -> process_pan(camera, dx, dy)
                          [] op = "process_pan_vertical" -> process_pan(camera, 0, dy)
                          [] OTHER -> camera
           /\ last_op' = IF op = "none" THEN "mouse_callback" ELSE op
           /\ last_args' = CASE op \in {"process_orbit", "process_pan"} -> <<dx, dy>>
                             [] op = "process_pan_vertical" -> <<0, dy>>
                             [] OTHER -> <<>>
           /\ last_x' = IF op = "none" THEN last_x ELSE x_pos
           /\ last_y' = IF op = "none" THEN last_y ELSE y_pos
    /\ pointer' = <<x_pos, y_pos>>
    /\ view_name' = ""
    /\ UNCHANGED <<pc, left_mouse_pressed, middle_mouse_pressed, right_mouse_pressed,
                   held, viewport_vars>>

mouse_callback(x_pos, y_pos) ==
    /\ pc = "running"
    /\ LET dx == x_pos - last_x
           dy == last_y - y_pos
           op == DragOperation(left_mouse_pressed, middle_mouse_pressed, right_mouse_pressed)
       IN  /\ op = "process_orbit" => Abs(camera.orbit_angle_h) <= MaxAngleH
           /\ op # "none" => TargetWithin(camera, MaxTarget)
           /\ camera' = CASE op = "process_orbit" -> process_orbit(camera, dx, dy)
                          [] op = "process_pan" -> process_pan(camera, dx, dy)
                          [] op = "process_pan_vertical" -> process_pan(camera, 0, dy)
                          [] OTHER -> camera
           /\ last_op' = IF op = "none" THEN "mouse_callback" ELSE op
           /\ last_args' = CASE op \in {"process_orbit", "process_pan"} -> <<dx, dy>>
                             [] op = "process_pan_vertical" -> <<0, dy>>
                             [] OTHER -> <<>>
    /\ last_x' = x_pos
    /\ last_y' = y_pos
    /\ pointer' = <<x_pos, y_pos>>
    /\ view_name' = ""
    /\ UNCHANGED <<pc, left_mouse_pressed, middle_mouse_pressed, right_mouse_pressed,
                   held, viewport_vars>>

Remove(seq, b) == SelectSeq(seq, LAMBDA e : e # b)

\* mouse_button_callback(button, PRESS); (x, y) is what glfw.get_cursor_pos returns
mouse_button_press(button, x, y) ==
    /\ pc = "running"
    /\ \A i \in 1..Len(held) : held[i] # button
    /\ left_mouse_pressed' = IF button = "LEFT" THEN TRUE ELSE left_mouse_pressed
    /\ middle_mouse_pressed' = IF button = "MIDDLE" THEN TRUE ELSE middle_mouse_pressed
    /\ right_mouse_pressed' = IF button = "RIGHT" THEN TRUE ELSE right_mouse_pressed
    /\ last_x' = x
    /\ last_y' = y
    /\ pointer' = <<x, y>>
    /\ held' = Append(held, button)
    /\ last_op' = "press"
    /\ last_args' = <<>>
    /\ view_name' = ""
    /\ UNCHANGED <<pc, camera, viewport_vars>>

\* mouse_button_callback(button, RELEASE)
mouse_button_release(button) ==
    /\ pc = "running"
    /\ \E i \in 1..Len(held) : held[i] = button
    /\ left_mouse_pressed' = IF button = "LEFT" THEN FALSE ELSE left_mouse_pressed
    /\ middle_mouse_pressed' = IF button = "MIDDLE" THEN FALSE ELSE middle_mouse_pressed
    /\ right_mouse_pressed' = IF button = "RIGHT" THEN FALSE ELSE right_mouse_pressed
    /\ held' = Remove(held, button)
    /\ last_op' = "release"
    /\ last_args' = <<>>
    /\ view_name' = ""
    /\ UNCHANGED <<pc, camera, last_x, last_y, pointer, viewport_vars>>

scroll_callback(y_offset) ==
    /\ pc = "running"
    /\ TargetWithin(camera, MaxTarget)
    /\ camera' = process_zoom(camera, y_offset)
    /\ last_op' = "process_zoom"
    /\ last_args' = <<y_offset>>
    /\ view_name' = ""
    /\ UNCHANGED <<pc, input_vars, viewport_vars>>

\* HOME without the update_camera_vectors call of line 260
key_home_stale ==
    /\ pc = "running"
    /\ camera' = Camera
    /\ last_op' = "reset"
    /\ last_args' = <<>>
    /\ view_name' = ""
    /\ UNCHANGED <<pc, input_vars, viewport_vars>>

\* key_callback(KEY_HOME, PRESS)
key_home ==
    /\ pc = "running"
    /\ camera' = update_camera_vectors(Camera)
    /\ last_op' = "reset"
    /\ last_args' = <<>>
    /\ view_name' = ""
    /\ UNCHANGED <<pc, input_vars, viewport_vars>>

\* int(size * 0.8)
WindowedSize(mode) == <<(mode[1] * 8) \div 10, (mode[2] * 8) \div 10>>

\* key_callback(KEY_F, PRESS): toggle full screen, re-read the framebuffer size
key_fullscreen ==
    /\ pc = "running"
    /\ monitor' = IF monitor = "none" THEN "primary" ELSE "none"
    /\ LET size == IF monitor = "none" THEN VideoMode ELSE WindowedSize(VideoMode)
       IN  Projected(size[1], size[2])
    /\ last_op' = "fullscreen"
    /\ last_args' = <<>>
    /\ view_name' = ""
    /\ UNCHANGED <<camera, input_vars>>

Buttons == {"LEFT", "MIDDLE", "RIGHT"}

\* input events of the navigation: pointer, buttons, scroll wheel, HOME
NavigationEvent ==
    \/ \E x \in PointerXs, y \in PointerYs : mouse_callback(x, y)
    \/ \E b \in Buttons, x \in PointerXs, y \in PointerYs : mouse_button_press(b, x, y)
    \/ \E b \in Buttons : mouse_button_release(b)
    \/ \E amount \in ScrollAmounts : scroll_callback(amount)
    \/ key_home

\* events that change the framebuffer: a resize, the F key
ViewportEvent ==
    \/ \E size \in FramebufferSizes : framebuffer_size_callback(size[1], size[2])
    \/ key_fullscreen

\* the main loop while the framebuffer keeps the size it had at start-up
Next ==
    \/ initialize
    \/ render
    \/ NavigationEvent

Spec == Init /\ [][Next]_vars

\* the main loop of a window that is resized, with the pointer (no button held), the scroll wheel and HOME
NextViewport ==
    \/ initialize
    \/ render
    \/ ViewportEvent
    \/ \E x \in PointerXs, y \in PointerYs : mouse_callback(x, y)
    \/ \E amount \in ScrollAmounts : scroll_callback(amount)
    \/ key_home

SpecViewport == Init /\ [][NextViewport]_vars

----------------------------------------------------------------------------
(* get_view_name as a function of the angles *)

InitView ==
    /\ pc = "classify"
    /\ camera \in {update_camera_vectors([Camera EXCEPT !.orbit_angle_h = h, !.orbit_angle_v = v]) :
                      h \in ViewAnglesH, v \in ViewAnglesV}
    /\ left_mouse_pressed = FALSE
    /\ middle_mouse_pressed = FALSE
    /\ right_mouse_pressed = FALSE
    /\ last_x = 0
    /\ last_y = 0
    /\ width = VideoMode[1]
    /\ height = VideoMode[2]
    /\ monitor = "primary"
    /\ aspect = update_projection(VideoMode[1], VideoMode[2], 0).aspect
    /\ error = "none"
    /\ view_name = ""
    /\ held = <<>>
    /\ pointer = <<0, 0>>
    /\ last_op = "__init__"
    /\ last_args = <<>>

\* draw_angle_display's call of get_view_name
classify ==
    /\ pc = "classify"
    /\ pc' = "classified"
    /\ view_name' = get_view_name(camera)
    /\ last_op' = "get_view_name"
    /\ last_args' = <<>>
    /\ UNCHANGED <<camera, input_vars, viewport_vars>>

NextView == classify

SpecView == InitView /\ [][NextView]_vars

----------------------------------------------------------------------------
(* Vocabulary of the properties *)

Cardinals == {"Front", "Right", "Back", "Left"}
DragOperations == {"process_orbit", "process_pan", "process_pan_vertical"}

\* the cardinal direction a view name reports, and whether it carries "Top"
CardinalOf(name) == CHOOSE d \in Cardinals : name \in {d, "Top " \o d, "Bottom " \o d}
HasTop(name) == \E d \in Cardinals : name = "Top " \o d
IsViewName(name) == \E d \in Cardinals : name \in {d, "Top " \o d, "Bottom " \o d}

Opposite(d) ==
    CASE d = "Front" -> "Back"
      [] d = "Back" -> "Front"
      [] d = "Left" -> "Right"
      [] d = "Right" -> "Left"

\* target + spherical(orbit_radius, orbit_angle_h, orbit_angle_v)
EyeOf(cam) ==
    LET s == Spherical(cam.orbit_radius, cam.orbit_angle_h, cam.orbit_angle_v)
    IN  [i \in 1..3 |-> cam.target[i] + s[i]]

----------------------------------------------------------------------------
(* Properties *)

\* C1: in every reachable state orbit_angle_v lies within [-89, 89] degrees;
\* no process_orbit call leaves it outside.
C1_VerticalAngleBounded ==
    /\ camera.orbit_angle_v >= -89 * AngleScale
    /\ camera.orbit_angle_v <= 89 * AngleScale

\* an orbit drag that overshot the lower bound and was clamped to -89
C1_Witness ==
    /\ last_op = "process_orbit"
    /\ camera.orbit_angle_v = -89 * AngleScale

\* C2: in every reachable state orbit_radius is in [1.0, 100.0], also after a
\* zoom whose unclamped result is negative.
C2_RadiusBounded ==
    /\ camera.orbit_radius >= 1 * DistScale
    /\ camera.orbit_radius <= 100 * DistScale

\* a zoom that was clamped to the lower bound 1.0
C2_Witness ==
    /\ last_op = "process_zoom"
    /\ camera.orbit_radius = 1 * DistScale

\* C3: HOME yields exactly target (0,0,0), radius 20.0, angle_h 0.0, angle_v 45.0
\* with the eye recomputed from them (not the stale constructor position), and
\* a second HOME gives the same camera.
C3_ResetRestoresStartup ==
    last_op = "reset" =>
        /\ camera.target = <<0, 0, 0>>
        /\ camera.orbit_radius = 20 * DistScale
        /\ camera.orbit_angle_h = 0
        /\ camera.orbit_angle_v = 45 * AngleScale
        /\ camera.position = Spherical(20 * DistScale, 0, 45 * AngleScale)
        /\ camera.position # <<0, 10 * DistScale, 20 * DistScale>>
        /\ ~camera.nan
        /\ update_camera_vectors(Camera) = camera

\* HOME pressed with a button still held, after the camera had been moved
C3_Witness ==
    /\ last_op = "reset"
    /\ held # <<>>
    /\ last_x # 0

\* C4: in every frame that is drawn, the eye position equals
\* target + spherical(orbit_radius, orbit_angle_h, orbit_angle_v).
C4_EyeConsistentAtRender ==
    last_op = "render" => (~camera.nan /\ camera.position = EyeOf(camera))

\* a frame drawn after a pan has moved the target away from the origin
C4_Witness ==
    /\ last_op = "render"
    /\ camera.target # <<0, 0, 0>>

\* C5: a pan translates target and position by the same vector and leaves
\* orbit_radius, orbit_angle_h and orbit_angle_v unchanged.
C5_PanTranslatesBoth ==
    [][last_op' \in {"process_pan", "process_pan_vertical"} =>
          /\ \A i \in 1..3 : camera'.target[i] - camera.target[i]
                               = camera'.position[i] - camera.position[i]
          /\ camera'.orbit_radius = camera.orbit_radius
          /\ camera'.orbit_angle_h = camera.orbit_angle_h
          /\ camera'.orbit_angle_v = camera.orbit_angle_v]_vars

\* a pan that moved the target along two axes
C5_Witness ==
    /\ last_op = "process_pan"
    /\ camera.target[1] # 0
    /\ camera.target[2] # 0

\* the operation bound to a button
ButtonOperation(b) ==
    CASE b = "LEFT" -> "process_orbit"
      [] b = "MIDDLE" -> "process_pan"
      [] b = "RIGHT" -> "process_pan_vertical"

IsHeld(b) == \E i \in 1..Len(held) : held[i] = b

\* C6 as stated: a pointer move invokes the operation of the first-held button.
C6_FirstHeldGoverns ==
    last_op \in DragOperations => last_op = ButtonOperation(held[1])

\* C6, amended: a pointer move invokes exactly one operation, that of the held
\* button ranking highest in the fixed order Left, Middle, Right, whatever the
\* order in which the buttons were pressed.
C6_PriorityGoverns ==
    /\ last_op \in DragOperations =>
          /\ held # <<>>
          /\ last_op = IF IsHeld("LEFT") THEN "process_orbit"
                       ELSE IF IsHeld("MIDDLE") THEN "process_pan"
                       ELSE "process_pan_vertical"
    /\ last_op = "mouse_callback" => held = <<>>

\* an orbit applied while the first-held button is not the left one
C6_Witness ==
    /\ last_op = "process_orbit"
    /\ Len(held) >= 2
    /\ held[1] # "LEFT"

\* C7 as stated: at 45 degrees elevation a horizontal angle of 0 is drawn as
\* "Front" and one normalised into [45, 135) as "Right".
C7_FrontAtZero ==
    (last_op = "render" /\ camera.orbit_angle_v = 45 * AngleScale) =>
        /\ camera.orbit_angle_h = 0 => view_name = "Front"
        /\ (camera.orbit_angle_h % (360 * AngleScale) >= 45 * AngleScale
              /\ camera.orbit_angle_h % (360 * AngleScale) < 135 * AngleScale) => view_name = "Right"

\* C7, amended: a horizontal angle of 0 (the start-up pose) is drawn as "Left"
\* and one normalised into [45, 135) as "Front"; one orbit with dx = 180, dy = 0
\* from the defaults makes the view name "Front".
C7_LeftAtZero ==
    (last_op = "render" /\ camera.orbit_angle_v = 45 * AngleScale) =>
        /\ camera.orbit_angle_h = 0 => view_name = "Left"
        /\ (camera.orbit_angle_h % (360 * AngleScale) >= 45 * AngleScale
              /\ camera.orbit_angle_h % (360 * AngleScale) < 135 * AngleScale) => view_name = "Front"

\* the frame drawn after one orbit with dx = 180, dy = 0 from the defaults
C7_Witness ==
    /\ last_op = "render"
    /\ camera.orbit_angle_h = 90 * AngleScale
    /\ camera.orbit_angle_v = 45 * AngleScale
    /\ camera.orbit_radius = 20 * DistScale
    /\ camera.target = <<0, 0, 0>>
    /\ last_x = 180
    /\ view_name = "Front"

\* C8: for every horizontal angle h the direction named for h + 180 is the
\* opposite of the one named for h, whatever the vertical angle.
C8_OppositeAtHalfTurn ==
    pc = "classified" =>
        /\ IsViewName(view_name)
        /\ \A v \in ViewAnglesV :
              LET turned == [camera EXCEPT !.orbit_angle_h = @ + 180 * AngleScale,
                                           !.orbit_angle_v = v]
              IN  CardinalOf(get_view_name(turned)) = Opposite(CardinalOf(view_name))

\* a negative angle and an angle beyond 360 have been classified
C8_Witness ==
    /\ pc = "classified"
    /\ camera.orbit_angle_h > 360 * AngleScale
    /\ CardinalOf(view_name) = "Front"

\* C9 as stated: the name carries "Top" exactly when orbit_angle_v exceeds 60.
C9_TopAboveSixty ==
    pc = "classified" => (HasTop(view_name) <=> camera.orbit_angle_v > 60 * AngleScale)

\* C9, amended: the name carries "Top" exactly when orbit_angle_v is at least
\* 60 degrees, and the qualifier never changes the direction reported.
C9_TopFromSixty ==
    pc = "classified" =>
        /\ HasTop(view_name) <=> camera.orbit_angle_v >= 60 * AngleScale
        /\ CardinalOf(view_name) = CardinalOf(get_view_name([camera EXCEPT !.orbit_angle_v = 0]))
        /\ get_view_name([camera EXCEPT !.orbit_angle_v = 0]) \in Cardinals

\* a view at exactly 60 degrees elevation, named with "Top"
C9_Witness ==
    /\ pc = "classified"
    /\ camera.orbit_angle_v = 60 * AngleScale
    /\ HasTop(view_name)

\* C10: a zero or negative framebuffer height that reaches update_projection is
\* reported as a configuration error, and neither the stored size nor the
\* projection is left built from it.
C10_InvalidHeightRejected ==
    /\ error \in {"none", "ConfigurationError"}
    /\ pc # "constructed" => (height > 0 /\ width > 0)
    /\ (pc # "constructed" /\ height > 0) => aspect = (width * AspectScale) \div height

\* C11: in every reachable state none of the three vectors process_pan divides
\* by its norm (forward, right, up) is zero, so no pan produces a NaN.
C11_PanNormsNonZero ==
    /\ ~camera.nan
    /\ \A k \in 1..3 : PanNorms(camera)[k] > 0

\* a pan applied at the steepest elevation and the smallest radius
C11_Witness ==
    /\ last_op = "process_pan"
    /\ camera.orbit_angle_v = 89 * AngleScale
    /\ camera.orbit_radius = 1 * DistScale
    /\ camera.target # <<0, 0, 0>>

\* x clamped into [lo, hi]
Clamped(x, lo, hi) == IF x < lo THEN lo ELSE IF x > hi THEN hi ELSE x

\* C12: a zoom by amount sets orbit_radius to r - amount * r * 0.1 clamped into
\* [1.0, 100.0] and leaves target and both angles unchanged; a positive amount
\* never increases the radius, a negative one never decreases it, 0 keeps it.
C12_ZoomProportional ==
    [][last_op' = "process_zoom" =>
          LET amount == last_args'[1]
              r == camera.orbit_radius
          IN  /\ camera'.orbit_radius
                    = Clamped(r - RoundDiv(amount * r, 10), 1 * DistScale, 100 * DistScale)
              /\ camera'.target = camera.target
              /\ camera'.orbit_angle_h = camera.orbit_angle_h
              /\ camera'.orbit_angle_v = camera.orbit_angle_v
              /\ amount > 0 => camera'.orbit_radius <= r
              /\ amount < 0 => camera'.orbit_radius >= r
              /\ amount = 0 => camera'.orbit_radius = r]_vars

\* a zoom out from radius 1.0 to 5.0, inside the clamp, at a moved orientation
C12_Witness ==
    /\ last_op = "process_zoom"
    /\ last_args = <<-40>>
    /\ camera.orbit_radius = 5 * DistScale
    /\ camera.orbit_angle_h # 0

\* the steps that are pointer-move events
PointerMoved == last_op' \in DragOperations \cup {"mouse_callback"}

\* a move with no button held changes no camera value and only records the position
IdleMoveOnlyRecords ==
    (PointerMoved /\ held = <<>>) =>
        /\ last_op' = "mouse_callback"
        /\ camera' = camera
        /\ <<last_x', last_y'>> = pointer'
        /\ UNCHANGED <<left_mouse_pressed, middle_mouse_pressed, right_mouse_pressed, held>>

\* the deltas of a move, measured from the most recent pointer sample
DeltaX == pointer'[1] - pointer[1]
DeltaY == pointer[2] - pointer'[2]

\* C13 as stated: an idle move only records the pointer position, and every
\* operation a drag invokes receives dx = x - last_x and dy = last_y - y
\* measured from the most recent pointer sample.
C13_DragReceivesBothDeltas ==
    [][/\ IdleMoveOnlyRecords
       /\ (PointerMoved /\ held # <<>>) =>
             /\ last_op' \in DragOperations
             /\ last_args' = <<DeltaX, DeltaY>>]_vars

\* C13, amended: an idle move only records the pointer position; orbit and pan
\* receive (dx, dy) and the right-button vertical pan receives (0, dy), with
\* dx = x - last_x and dy = last_y - y measured from the most recent sample.
C13_DragReceivesDeltas ==
    [][/\ IdleMoveOnlyRecords
       /\ (PointerMoved /\ held # <<>>) =>
             /\ last_op' \in DragOperations
             /\ <<last_x', last_y'>> = pointer'
             /\ last_args' = IF last_op' = "process_pan_vertical"
                             THEN <<0, DeltaY>>
                             ELSE <<DeltaX, DeltaY>>]_vars

\* a right-button drag that ended at x = 180, received (0, dy) and moved the target
C13_Witness ==
    /\ last_op = "process_pan_vertical"
    /\ last_args = <<0, -300>>
    /\ pointer = <<180, 300>>
    /\ <<last_x, last_y>> = pointer
    /\ camera.target[2] # 0

====
